---- MODULE Spec2Model ----
(***************************************************************************)
(* A model of veg-web's App component (src/src/App.tsx) and its geo        *)
(* helpers (src/unnamed/part_000, i.e. src/utils/geo.ts).                  *)
(*                                                                         *)
(* Representation.                                                         *)
(*  - A JavaScript number is held as its canonical decimal text            *)
(*    (String(x)): "22.9976", "0", "NaN", "Infinity".  Integer quantities  *)
(*    the code does arithmetic on (reco_count, seconds, minutes) are Int.  *)
(*  - A JavaScript string the code slices is a sequence of character       *)
(*    codes.                                                               *)
(*  - A nullable value is a sequence of length at most one: NULL is <<>>,  *)
(*    a present value x is <<x>>.                                          *)
(*  - Every handler (event handler, effect, promise continuation,          *)
(*    callback) is one atomic action: JavaScript runs each to completion   *)
(*    on a single thread, and an await splits a function in two.           *)
(*  - dialogs is what the most recent handler showed the user (prompt and  *)
(*    alert are blocking and return before the handler continues).         *)
(***************************************************************************)
EXTENDS Integers, Sequences, FiniteSets, TLC

VARIABLES
    venues,         \* useState<Venue[]>                      App.tsx:67
    loading,        \* useState(true)                         App.tsx:68
    originKey,      \* useState<OriginKey>('my')              App.tsx:70
    origin,         \* useState<LatLng | null>(null)          App.tsx:71
    minutes,        \* useState<number>(15)                   App.tsx:72
    userHash,       \* useState<string>('dev-' + ...)         App.tsx:77
    localStorage,   \* the two veg-origin:* entries           App.tsx:30,39
    QUICK_ORIGINS,  \* module-level table, mutated by effect  App.tsx:46
    hasGeolocation, \* navigator.geolocation is present       App.tsx:142
    geoRequests,    \* getCurrentPosition calls in flight     App.tsx:146
    liff,           \* progress of the LIFF promise chain     App.tsx:86
    loadPc,         \* progress of load()                     App.tsx:109
    rpcs,           \* fn_upvote calls in flight              App.tsx:194
    inserts,        \* app_events inserts in flight           App.tsx:183
    dialogs         \* prompts/alerts shown by the last handler

vars == <<venues, loading, originKey, origin, minutes, userHash, localStorage,
          QUICK_ORIGINS, hasGeolocation, geoRequests, liff, loadPc, rpcs,
          inserts, dialogs>>

(***************************************************************************)
(* Bounds of the model.                                                    *)
(***************************************************************************)
MaxGeo == 1
MaxRpcs == 1
MaxInserts == 1

(***************************************************************************)
(* Nullable values.                                                        *)
(***************************************************************************)
NULL == <<>>
Some(x) == <<x>>

Max(a, b) == IF a >= b THEN a ELSE b
Min(a, b) == IF a <= b THEN a ELSE b

RemoveAt(s, i) == SubSeq(s, 1, i - 1) \o SubSeq(s, i + 1, Len(s))

(***************************************************************************)
(* Types and tables of App.tsx.                                            *)
(***************************************************************************)
LatLng(lat, lng) == [lat |-> lat, lng |-> lng]

Venue(id, reco_count, lat, lng) ==
    [id |-> id, reco_count |-> reco_count, lat |-> lat, lng |-> lng]

CUSTOM_KEYS == {"customA", "customB"}

OriginKeys == {"my", "kuangfu", "chenggong", "customA", "customB"}

\* The 'my' entry has no lat/lng (NULL); customA/customB start as the (0, 0)
\* placeholder.
QUICK_ORIGINS_initial ==
    [k \in OriginKeys |->
        CASE k = "my"        -> NULL
          [] k = "kuangfu"   -> Some(LatLng("22.9976", "120.2191"))
          [] k = "chenggong" -> Some(LatLng("22.9949", "120.2199"))
          [] OTHER           -> Some(LatLng("0", "0"))]

\* typeof o.lat === 'number' && typeof o.lng === 'number' on a table entry.
isFixedOrigin(o) == o # NULL

SentinelMinutes == 999
TIME_OPTIONS == {10, 15, SentinelMinutes}

(***************************************************************************)
(* JavaScript built-ins the handlers use.                                  *)
(***************************************************************************)
\* Number(x) of what prompt() returned: null (cancelled) and "" give 0, a
\* decimal literal gives its value (trailing zeros are not kept), the text
\* "Infinity" gives Infinity, any other text gives NaN.
Number(x) ==
    IF x = NULL THEN "0"
    ELSE CASE x[1] = ""         -> "0"
           [] x[1] = "22.9960"  -> "22.996"
           [] x[1] = "120.2195" -> "120.2195"
           [] x[1] = "Infinity" -> "Infinity"
           [] OTHER             -> "NaN"

Number_isFinite(n) == n \notin {"NaN", "Infinity", "-Infinity"}

\* JSON.stringify of a number: a finite number is its decimal text, NaN and
\* the infinities are written as null.
JSON_number(n) == IF Number_isFinite(n) THEN n ELSE "null"

\* JSON.stringify({lat, lng}): the text is held by its two fields.
JSON_stringify(p) == [lat |-> JSON_number(p.lat), lng |-> JSON_number(p.lng)]

\* JSON.parse of such a text: "null" parses to null, a decimal to a number.
JSON_parse(raw) == [lat |-> raw.lat, lng |-> raw.lng]

typeof(x) == IF x = "null" THEN "object" ELSE "number"

toUpperCase(key) ==
    CASE key = "customA" -> "CUSTOMA"
      [] key = "customB" -> "CUSTOMB"
      [] OTHER           -> key

\* s.slice(0, n) of a string held as a sequence of character codes.
slice(s, n) == SubSeq(s, 1, Min(n, Len(s)))

(***************************************************************************)
(* Custom origins in localStorage.                                         *)
(***************************************************************************)
StorageKey(key) ==
    CASE key = "customA" -> "veg-origin:customA"
      [] key = "customB" -> "veg-origin:customB"

StorageKeys == {StorageKey(k) : k \in CUSTOM_KEYS}

loadCustomPoint(key) ==
    LET raw == localStorage[StorageKey(key)] IN
    IF raw = NULL THEN NULL
    ELSE LET obj == JSON_parse(raw[1]) IN
         IF typeof(obj.lat) = "number" /\ typeof(obj.lng) = "number"
         THEN Some(obj)
         ELSE NULL

\* A faulty saveCustomPoint: one storage entry for both keys.
saveCustomPointOneKey(key, p) ==
    [localStorage EXCEPT ![StorageKey("customA")] = Some(JSON_stringify(p))]

saveCustomPoint(key, p) ==
    [localStorage EXCEPT ![StorageKey(key)] = Some(JSON_stringify(p))]

(***************************************************************************)
(* src/utils/geo.ts                                                        *)
(***************************************************************************)
\* haversineKm(a, b) in units of 1e-4 km.  TLC has no trigonometry: the
\* values are the source formula (R = 6371) evaluated in IEEE doubles on
\* every pair (origin the model can hold, venue position of the model's
\* tables), rounded to the unit.  A pair outside the table is an error.
haversineKm(a, b) ==
    CASE a = LatLng("22.9976", "120.2191") /\ b = LatLng("22.9949", "120.2199") -> 3112
      [] a = LatLng("22.9976", "120.2191") /\ b = LatLng("23.007717", "120.2191") -> 11250
      [] a = LatLng("22.9976", "120.2191") /\ b = LatLng("23.00773", "120.2191") -> 11264
      [] a = LatLng("22.9976", "120.2191") /\ b = LatLng("22.9981", "120.2191") -> 556
      [] a = LatLng("22.9949", "120.2199") /\ b = LatLng("22.9949", "120.2199") -> 0
      [] a = LatLng("22.9949", "120.2199") /\ b = LatLng("23.007717", "120.2191") -> 14275
      [] a = LatLng("22.9949", "120.2199") /\ b = LatLng("23.00773", "120.2191") -> 14290
      [] a = LatLng("22.9949", "120.2199") /\ b = LatLng("22.9981", "120.2191") -> 3651
      [] a = LatLng("22.999", "120.217") /\ b = LatLng("22.9949", "120.2199") -> 5440
      [] a = LatLng("22.999", "120.217") /\ b = LatLng("23.007717", "120.2191") -> 9928
      [] a = LatLng("22.999", "120.217") /\ b = LatLng("23.00773", "120.2191") -> 9942
      [] a = LatLng("22.999", "120.217") /\ b = LatLng("22.9981", "120.2191") -> 2371
      [] a = LatLng("22.996", "120.2195") /\ b = LatLng("22.9949", "120.2199") -> 1290
      [] a = LatLng("22.996", "120.2195") /\ b = LatLng("23.007717", "120.2191") -> 13035
      [] a = LatLng("22.996", "120.2195") /\ b = LatLng("23.00773", "120.2191") -> 13050
      [] a = LatLng("22.996", "120.2195") /\ b = LatLng("22.9981", "120.2191") -> 2371
      [] a = LatLng("0", "120.2195") /\ b = LatLng("22.9949", "120.2199") -> 25569162
      [] a = LatLng("0", "120.2195") /\ b = LatLng("23.007717", "120.2191") -> 25583414
      [] a = LatLng("0", "120.2195") /\ b = LatLng("23.00773", "120.2191") -> 25583428
      [] a = LatLng("0", "120.2195") /\ b = LatLng("22.9981", "120.2191") -> 25572720
      [] a = LatLng("0", "0") /\ b = LatLng("22.9949", "120.2199") -> 130767395
      [] a = LatLng("0", "0") /\ b = LatLng("23.007717", "120.2191") -> 130763434
      [] a = LatLng("0", "0") /\ b = LatLng("23.00773", "120.2191") -> 130763430
      [] a = LatLng("0", "0") /\ b = LatLng("22.9981", "120.2191") -> 130765807

MinEtaSec == 60

\* Math.max(60, Math.round((distKm / v) * 3600)) with v = 4.5 (walk) or 15
\* (bike) km/h.  With distKm in 1e-4 km the quotient is distKm * 2/25 (walk)
\* or distKm * 3/125 (bike) seconds, and Math.round(x) is floor(x + 1/2).
etaSec(distKm, mode) ==
    LET num == IF mode = "walk" THEN 2 ELSE 3
        den == IF mode = "walk" THEN 25 ELSE 125
    IN Max(MinEtaSec, (2 * num * distKm + den) \div (2 * den))

(***************************************************************************)
(* The filtered list (useMemo).                                            *)
(***************************************************************************)
\* A venue with its distance and ETA from origin o.
Row(v, o) ==
    LET distKm == haversineKm(o, LatLng(v.lat, v.lng)) IN
    [id |-> v.id, reco_count |-> v.reco_count, lat |-> v.lat, lng |-> v.lng,
     distKm |-> distKm, etaSec |-> etaSec(distKm, "walk")]

\* A faulty filter callback: < in place of <=.
withinBudgetStrict(r, m) == r.etaSec < m * 60 \/ m >= SentinelMinutes

\* The filter callback: r._etaSec <= minutes * 60 || minutes >= 999.
withinBudget(r, m) == r.etaSec <= m * 60 \/ m >= SentinelMinutes

\* A faulty sort callback: no tie-break on reco_count.
compareRowsEtaOnly(a, b) == a.etaSec - b.etaSec

\* The sort callback: a._etaSec - b._etaSec || b.reco_count - a.reco_count.
compareRows(a, b) ==
    IF a.etaSec - b.etaSec # 0 THEN a.etaSec - b.etaSec
    ELSE b.reco_count - a.reco_count

\* Array.prototype.sort with compareRows: a stable sort.
RECURSIVE InsertSorted(_, _)
InsertSorted(s, x) ==
    IF s = <<>> THEN <<x>>
    ELSE IF compareRows(Head(s), x) <= 0
         THEN <<Head(s)>> \o InsertSorted(Tail(s), x)
         ELSE <<x>> \o s

RECURSIVE sort(_)
sort(s) ==
    IF s = <<>> THEN <<>>
    ELSE InsertSorted(sort(SubSeq(s, 1, Len(s) - 1)), s[Len(s)])

filteredOf(vs, o, m) ==
    IF o = NULL THEN vs
    ELSE LET rows   == [i \in DOMAIN vs |-> Row(vs[i], o[1])]
             within == SelectSeq(rows, LAMBDA r : withinBudget(r, m))
         IN sort(within)

filtered == filteredOf(venues, origin, minutes)

(***************************************************************************)
(* The environment: what the backend, the SDK, the browser and the user    *)
(* can answer.                                                             *)
(***************************************************************************)
\* Published rows of the venues table, as two possible query results.
\* From kuangfu, v1 is 901 s away and v4 and v3 (one position) 900 s.
Table1 ==
    << Venue("v1", 5, "23.00773", "120.2191"),
       Venue("v4", 0, "23.007717", "120.2191"),
       Venue("v3", 3, "23.007717", "120.2191") >>

\* v2 stands at chenggong, v5 some 56 m from kuangfu.
Table2 ==
    << Venue("v5", 2, "22.9981", "120.2191"),
       Venue("v2", 2, "22.9949", "120.2199") >>

Tables == {Table1, Table2}

VenueIds == {"v1", "v2", "v3", "v4", "v5"}

\* The longest list the model loads.
MaxRows == Max(Len(Table1), Len(Table2))

\* Counts fn_upvote can return.
ReturnedCounts == {1, 4}

\* error.message of a failed select / rpc.
LoadErrors == {"select failed"}
RpcErrors == {"rpc failed"}

\* pos.coords of a successful getCurrentPosition.
GeoPositions == {LatLng("22.999", "120.217")}

\* What the user can answer to the two prompts (NULL: cancelled).
LatAnswers == {NULL, Some(""), Some("22.9960"), Some("abc")}
LngAnswers == {Some("120.2195"), Some("Infinity")}

\* btoa(navigator.userAgent), liff.getIDToken() and profile.userId, as
\* character codes.  The long token is longer than the 32 characters kept.
B64UserAgent == [i \in 1..20 |-> 64 + i]
LongToken == [i \in 1..40 |-> 100 + i]
ShortToken == <<7, 8, 9>>
IdTokens == {NULL, Some(LongToken), Some(ShortToken), Some(<<>>)}
UserIds == {NULL, Some(<<85, 49>>)}

(***************************************************************************)
(* Dialogs.                                                                *)
(***************************************************************************)
Alert(msg) == <<"alert">> \o msg
Prompt(msg) == <<"prompt">> \o msg

(***************************************************************************)
(* Identity (App.tsx:77-106).                                              *)
(***************************************************************************)
DevHash == [prefix |-> "dev-", rest |-> slice(B64UserAgent, 16)]
TokenHash(idToken) == [prefix |-> "liffToken-", rest |-> slice(idToken, 32)]
UidHash(userId) == [prefix |-> "liffUid-", rest |-> userId]

\* A JavaScript string (or null) in a condition: null and "" are falsy.
Truthy(s) == s # NULL /\ s[1] # <<>>

LiffState(pc, loggedIn, idToken, userId) ==
    [pc |-> pc, loggedIn |-> loggedIn, idToken |-> idToken, userId |-> userId]

\* The effect body up to liff.init(): nothing is started without a LIFF id.
LiffEffect(liffId) ==
    liff' = LiffState(IF liffId THEN "init" ELSE "noLiffId", FALSE, NULL, NULL)

\* A faulty continuation: the profile is asked first, whether or not there
\* is an ID token.
LiffInitResolvedProfileFirst(loggedIn, idToken) ==
    /\ liff.pc = "init"
    /\ IF ~loggedIn
       THEN liff' = LiffState("login", FALSE, NULL, NULL)
       ELSE liff' = LiffState("getProfile", TRUE, idToken, NULL)
    /\ userHash' = userHash
    /\ dialogs' = <<>>
    /\ UNCHANGED <<venues, loading, originKey, origin, minutes, localStorage,
                   QUICK_ORIGINS, hasGeolocation, geoRequests, loadPc, rpcs,
                   inserts>>

\* liff.init(...).then(...): the continuation after a successful init.
LiffInitResolved(loggedIn, idToken) ==
    /\ liff.pc = "init"
    /\ IF ~loggedIn
       THEN \* liff.login({redirectUri}); return
            /\ liff' = LiffState("login", FALSE, NULL, NULL)
            /\ userHash' = userHash
       ELSE IF Truthy(idToken)
            THEN /\ userHash' = TokenHash(idToken[1])
                 /\ liff' = LiffState("tokenSet", TRUE, idToken, NULL)
            ELSE /\ userHash' = userHash
                 /\ liff' = LiffState("getProfile", TRUE, idToken, NULL)
    /\ dialogs' = <<>>
    /\ UNCHANGED <<venues, loading, originKey, origin, minutes, localStorage,
                   QUICK_ORIGINS, hasGeolocation, geoRequests, loadPc, rpcs,
                   inserts>>

\* liff.init(...).catch(() => {})
LiffInitRejected ==
    /\ liff.pc = "init"
    /\ liff' = LiffState("initRejected", FALSE, NULL, NULL)
    /\ dialogs' = <<>>
    /\ UNCHANGED <<venues, loading, originKey, origin, minutes, userHash,
                   localStorage, QUICK_ORIGINS, hasGeolocation, geoRequests,
                   loadPc, rpcs, inserts>>

\* liff.getProfile().then((p) => { if (p?.userId) setUserHash(...) })
LiffProfileResolved(userId) ==
    /\ liff.pc = "getProfile"
    /\ userHash' = IF Truthy(userId) THEN UidHash(userId[1]) ELSE userHash
    /\ liff' = [liff EXCEPT !.pc = "profileResolved", !.userId = userId]
    /\ dialogs' = <<>>
    /\ UNCHANGED <<venues, loading, originKey, origin, minutes, localStorage,
                   QUICK_ORIGINS, hasGeolocation, geoRequests, loadPc, rpcs,
                   inserts>>

\* liff.getProfile().catch(() => {})
LiffProfileRejected ==
    /\ liff.pc = "getProfile"
    /\ liff' = [liff EXCEPT !.pc = "profileRejected"]
    /\ dialogs' = <<>>
    /\ UNCHANGED <<venues, loading, originKey, origin, minutes, userHash,
                   localStorage, QUICK_ORIGINS, hasGeolocation, geoRequests,
                   loadPc, rpcs, inserts>>

(***************************************************************************)
(* Telemetry (App.tsx:177-190).                                            *)
(***************************************************************************)
\* The row logEvent inserts; the insert stays in flight until it settles.
\* user_hash is the userHash of the render whose closure calls logEvent.
logEvent(pending, user_hash, evt, venueId, meta) ==
    Append(pending, [user_hash |-> user_hash, venue_id |-> venueId,
                     event |-> evt, meta |-> meta])

InsertOutcomes == {"ok", "error", "rejected"}

\* A faulty settling: a failed insert is reported like a failed select.
logEventSettledAlerts(i, outcome) ==
    /\ i \in DOMAIN inserts
    /\ outcome \in InsertOutcomes
    /\ inserts' = RemoveAt(inserts, i)
    /\ dialogs' = IF outcome = "ok" THEN <<>>
                  ELSE <<Alert(<<"insert failed">>)>>
    /\ UNCHANGED <<venues, loading, originKey, origin, minutes, userHash,
                   localStorage, QUICK_ORIGINS, hasGeolocation, geoRequests,
                   liff, loadPc, rpcs>>

\* The insert settles: it resolves without error, resolves with an error
\* (which logEvent does not read) or rejects (which the empty catch eats).
logEventSettled(i, outcome) ==
    /\ i \in DOMAIN inserts
    /\ outcome \in InsertOutcomes
    /\ inserts' = RemoveAt(inserts, i)
    /\ dialogs' = <<>>
    /\ UNCHANGED <<venues, loading, originKey, origin, minutes, userHash,
                   localStorage, QUICK_ORIGINS, hasGeolocation, geoRequests,
                   liff, loadPc, rpcs>>

(***************************************************************************)
(* Loading the venues (App.tsx:109-125).                                   *)
(***************************************************************************)
\* load() up to its first await: setLoading(true) and the select is sent.
LoadStart ==
    /\ loading' = TRUE
    /\ loadPc' = "selecting"

\* load() after the select settles with {data, error}: alert on error,
\* setVenues(data || []), setLoading(false), then logEvent('view') (awaited,
\* with nothing after it).  load is the first render's closure, so the row
\* carries the initial userHash.
LoadResolved(data, error) ==
    /\ loadPc = "selecting"
    /\ Len(inserts) < MaxInserts
    /\ dialogs' = IF error # NULL THEN <<Alert(<<error[1]>>)>> ELSE <<>>
    /\ venues' = IF data # NULL THEN data[1] ELSE <<>>
    /\ loading' = FALSE
    /\ inserts' = logEvent(inserts, DevHash, "view", NULL, <<>>)
    /\ loadPc' = "loaded"
    /\ UNCHANGED <<originKey, origin, minutes, userHash, localStorage,
                   QUICK_ORIGINS, hasGeolocation, geoRequests, liff, rpcs>>

(***************************************************************************)
(* The origin (App.tsx:128-159, 205-217).                                  *)
(***************************************************************************)
\* The table after the effect has copied the stored custom points into it.
QuickOriginsLoaded ==
    LET customA == loadCustomPoint("customA")
        customB == loadCustomPoint("customB")
    IN [QUICK_ORIGINS EXCEPT
          !["customA"] = IF customA # NULL
                         THEN Some(LatLng(customA[1].lat, customA[1].lng))
                         ELSE @,
          !["customB"] = IF customB # NULL
                         THEN Some(LatLng(customB[1].lat, customB[1].lng))
                         ELSE @]

\* The effect of [originKey], run with originKey = key.
OriginEffect(key) ==
    /\ QUICK_ORIGINS' = QuickOriginsLoaded
    /\ IF key = "my"
       THEN IF ~hasGeolocation
            THEN /\ origin' = NULL
                 /\ geoRequests' = geoRequests
            ELSE \* getCurrentPosition(...): the callbacks come later
                 /\ geoRequests < MaxGeo
                 /\ origin' = origin
                 /\ geoRequests' = geoRequests + 1
       ELSE LET target == QuickOriginsLoaded[key] IN
            /\ origin' = IF isFixedOrigin(target)
                         THEN Some(LatLng(target[1].lat, target[1].lng))
                         ELSE NULL
            /\ geoRequests' = geoRequests

\* The first render's effects, in the order they are declared: the LIFF
\* effect, load(), the origin effect.
Mount(liffId) ==
    /\ loadPc = "unmounted"
    /\ LiffEffect(liffId)
    /\ LoadStart
    /\ OriginEffect(originKey)
    /\ dialogs' = <<>>
    /\ UNCHANGED <<venues, originKey, minutes, userHash, localStorage,
                   hasGeolocation, rpcs, inserts>>

\* A chip of the origin row: setOriginKey(key), then the effect runs because
\* originKey changed (setting the key it already has renders nothing and
\* runs no effect).  The chips are rendered once loading is false.
SelectOrigin(key) ==
    /\ ~loading
    /\ key \in OriginKeys
    /\ key # originKey
    /\ originKey' = key
    /\ OriginEffect(key)
    /\ dialogs' = <<>>
    /\ UNCHANGED <<venues, loading, minutes, userHash, localStorage,
                   hasGeolocation, liff, loadPc, rpcs, inserts>>

\* The success callback of getCurrentPosition.
GeoSuccess(pos) ==
    /\ geoRequests > 0
    /\ geoRequests' = geoRequests - 1
    /\ origin' = Some(LatLng(pos.lat, pos.lng))
    /\ dialogs' = <<>>
    /\ UNCHANGED <<venues, loading, originKey, minutes, userHash, localStorage,
                   QUICK_ORIGINS, hasGeolocation, liff, loadPc, rpcs, inserts>>

\* A faulty error callback: the origin is left as it was.
GeoErrorKeepsOrigin ==
    /\ geoRequests > 0
    /\ geoRequests' = geoRequests - 1
    /\ origin' = origin
    /\ dialogs' = <<>>
    /\ UNCHANGED <<venues, loading, originKey, minutes, userHash, localStorage,
                   QUICK_ORIGINS, hasGeolocation, liff, loadPc, rpcs, inserts>>

\* The error callback of getCurrentPosition: denied, unavailable, or the
\* 6000 ms timeout.
GeoError ==
    /\ geoRequests > 0
    /\ geoRequests' = geoRequests - 1
    /\ origin' = NULL
    /\ dialogs' = <<>>
    /\ UNCHANGED <<venues, loading, originKey, minutes, userHash, localStorage,
                   QUICK_ORIGINS, hasGeolocation, liff, loadPc, rpcs, inserts>>

\* A faulty promptSetCustom: only the latitude is checked.
promptSetCustomLatOnly(key, latAnswer, lngAnswer) ==
    LET lat == Number(latAnswer)
        lng == Number(lngAnswer)
        p   == LatLng(lat, lng)
    IN
    /\ ~loading
    /\ key \in CUSTOM_KEYS
    /\ IF Number_isFinite(lat)
       THEN /\ localStorage' = saveCustomPoint(key, p)
            /\ origin' = IF originKey = key THEN Some(p) ELSE origin
            /\ dialogs' = << Prompt(<<"lat">>), Prompt(<<"lng">>),
                             Alert(<<"updated", toUpperCase(key), lat, lng>>) >>
       ELSE /\ localStorage' = localStorage
            /\ origin' = origin
            /\ dialogs' = << Prompt(<<"lat">>), Prompt(<<"lng">>),
                             Alert(<<"bad format">>) >>
    /\ UNCHANGED <<venues, loading, originKey, minutes, userHash,
                   QUICK_ORIGINS, hasGeolocation, geoRequests, liff, loadPc,
                   rpcs, inserts>>

\* The two buttons under the chips.
promptSetCustom(key, latAnswer, lngAnswer) ==
    LET lat == Number(latAnswer)
        lng == Number(lngAnswer)
        p   == LatLng(lat, lng)
    IN
    /\ ~loading
    /\ key \in CUSTOM_KEYS
    /\ IF Number_isFinite(lat) /\ Number_isFinite(lng)
       THEN /\ localStorage' = saveCustomPoint(key, p)
            /\ origin' = IF originKey = key THEN Some(p) ELSE origin
            /\ dialogs' = << Prompt(<<"lat">>), Prompt(<<"lng">>),
                             Alert(<<"updated", toUpperCase(key), lat, lng>>) >>
       ELSE /\ localStorage' = localStorage
            /\ origin' = origin
            /\ dialogs' = << Prompt(<<"lat">>), Prompt(<<"lng">>),
                             Alert(<<"bad format">>) >>
    /\ UNCHANGED <<venues, loading, originKey, minutes, userHash,
                   QUICK_ORIGINS, hasGeolocation, geoRequests, liff, loadPc,
                   rpcs, inserts>>

\* A chip of the time row: setMinutes(value).
SetMinutes(m) ==
    /\ ~loading
    /\ m \in TIME_OPTIONS
    /\ m # minutes
    /\ minutes' = m
    /\ dialogs' = <<>>
    /\ UNCHANGED <<venues, loading, originKey, origin, userHash, localStorage,
                   QUICK_ORIGINS, hasGeolocation, geoRequests, liff, loadPc,
                   rpcs, inserts>>

(***************************************************************************)
(* Voting (App.tsx:193-202) and the cards' other events.                   *)
(***************************************************************************)
\* upvote(id) up to its await: the rpc is sent with the current userHash.
\* The button belongs to a card of the filtered list.
upvote(id) ==
    /\ ~loading
    /\ \E i \in DOMAIN filtered : filtered[i].id = id
    /\ Len(rpcs) < MaxRpcs
    /\ rpcs' = Append(rpcs, [p_user_hash |-> userHash, p_venue_id |-> id])
    /\ dialogs' = <<>>
    /\ UNCHANGED <<venues, loading, originKey, origin, minutes, userHash,
                   localStorage, QUICK_ORIGINS, hasGeolocation, geoRequests,
                   liff, loadPc, inserts>>

\* A faulty patchCount: the count is incremented locally instead of taking
\* the backend's value.
patchCountLocalIncrement(prev, id, newCount) ==
    [i \in DOMAIN prev |->
        IF prev[i].id = id
        THEN [prev[i] EXCEPT !.reco_count = prev[i].reco_count + 1]
        ELSE prev[i]]

\* prev.map((x) => (x.id === id ? { ...x, reco_count: newCount } : x))
patchCount(prev, id, newCount) ==
    [i \in DOMAIN prev |->
        IF prev[i].id = id THEN [prev[i] EXCEPT !.reco_count = newCount]
        ELSE prev[i]]

\* A faulty upvoteResolved: the 'upvote' row is logged before the error is
\* looked at, so a refused vote is logged too.
upvoteResolvedLogsFirst(i, data, error) ==
    /\ i \in DOMAIN rpcs
    /\ rpcs' = RemoveAt(rpcs, i)
    /\ Len(inserts) < MaxInserts
    /\ inserts' = logEvent(inserts, rpcs[i].p_user_hash, "upvote",
                           Some(rpcs[i].p_venue_id), <<>>)
    /\ IF error # NULL
       THEN /\ dialogs' = <<Alert(<<error[1]>>)>>
            /\ venues' = venues
       ELSE /\ venues' = patchCount(venues, rpcs[i].p_venue_id, data[1])
            /\ dialogs' = <<>>
    /\ UNCHANGED <<loading, originKey, origin, minutes, userHash, localStorage,
                   QUICK_ORIGINS, hasGeolocation, geoRequests, liff, loadPc>>

\* upvote after the rpc settles with {data, error}.
upvoteResolved(i, data, error) ==
    /\ i \in DOMAIN rpcs
    /\ rpcs' = RemoveAt(rpcs, i)
    /\ IF error # NULL
       THEN /\ dialogs' = <<Alert(<<error[1]>>)>>
            /\ UNCHANGED <<venues, inserts>>
       ELSE /\ Len(inserts) < MaxInserts
            /\ venues' = patchCount(venues, rpcs[i].p_venue_id, data[1])
            /\ inserts' = logEvent(inserts, rpcs[i].p_user_hash, "upvote",
                                   Some(rpcs[i].p_venue_id), <<>>)
            /\ dialogs' = <<>>
    /\ UNCHANGED <<loading, originKey, origin, minutes, userHash, localStorage,
                   QUICK_ORIGINS, hasGeolocation, geoRequests, liff, loadPc>>

\* onSlideChange with s.activeIndex = activeIndex (0-based).
SlideChange(activeIndex) ==
    /\ ~loading
    /\ IF activeIndex + 1 \in DOMAIN filtered
       THEN /\ Len(inserts) < MaxInserts
            /\ inserts' = logEvent(inserts, userHash, "swipe",
                                   Some(filtered[activeIndex + 1].id), <<>>)
       ELSE inserts' = inserts
    /\ dialogs' = <<>>
    /\ UNCHANGED <<venues, loading, originKey, origin, minutes, userHash,
                   localStorage, QUICK_ORIGINS, hasGeolocation, geoRequests,
                   liff, loadPc, rpcs>>

\* The navigation link of the card of filtered[i]: the meta carries the
\* origin and the card's ETA (undefined without an origin or at distance 0).
Navigate(i) ==
    /\ ~loading
    /\ i \in DOMAIN filtered
    /\ Len(inserts) < MaxInserts
    /\ LET v      == filtered[i]
           distKm == IF origin # NULL
                     THEN Some(haversineKm(origin[1], LatLng(v.lat, v.lng)))
                     ELSE NULL
           sec    == IF distKm # NULL /\ distKm[1] # 0
                     THEN Some(etaSec(distKm[1], "walk"))
                     ELSE NULL
       IN inserts' = logEvent(inserts, userHash, "nav", Some(v.id),
                              <<origin, sec>>)
    /\ dialogs' = <<>>
    /\ UNCHANGED <<venues, loading, originKey, origin, minutes, userHash,
                   localStorage, QUICK_ORIGINS, hasGeolocation, geoRequests,
                   liff, loadPc, rpcs>>

(***************************************************************************)
(* The state machine.                                                      *)
(***************************************************************************)
Init ==
    /\ venues = <<>>
    /\ loading = TRUE
    /\ originKey = "my"
    /\ origin = NULL
    /\ minutes = 15
    /\ userHash = DevHash
    /\ localStorage = [k \in StorageKeys |-> NULL]
    /\ QUICK_ORIGINS = QUICK_ORIGINS_initial
    /\ hasGeolocation \in BOOLEAN
    /\ geoRequests = 0
    /\ liff = LiffState("unmounted", FALSE, NULL, NULL)
    /\ loadPc = "unmounted"
    /\ rpcs = <<>>
    /\ inserts = <<>>
    /\ dialogs = <<>>

NextIdentity ==
    \/ \E loggedIn \in BOOLEAN, idToken \in IdTokens :
          LiffInitResolved(loggedIn, idToken)
    \/ LiffInitRejected
    \/ \E userId \in UserIds : LiffProfileResolved(userId)
    \/ LiffProfileRejected

NextLoad ==
    \/ \E liffId \in BOOLEAN : Mount(liffId)
    \/ \E t \in Tables : LoadResolved(Some(t), NULL)
    \/ \E e \in LoadErrors : LoadResolved(NULL, Some(e))

NextGeo ==
    \/ \E pos \in GeoPositions : GeoSuccess(pos)
    \/ GeoError

NextOrigin ==
    \/ \E key \in OriginKeys : SelectOrigin(key)
    \/ \E key \in CUSTOM_KEYS, la \in LatAnswers, ln \in LngAnswers :
          promptSetCustom(key, la, ln)
    \/ \E m \in TIME_OPTIONS : SetMinutes(m)

NextCards ==
    \/ \E id \in VenueIds : upvote(id)
    \/ \E i \in 1..MaxRpcs, n \in ReturnedCounts :
          upvoteResolved(i, Some(n), NULL)
    \/ \E i \in 1..MaxRpcs, e \in RpcErrors : upvoteResolved(i, NULL, Some(e))
    \/ \E activeIndex \in 0..MaxRows : SlideChange(activeIndex)
    \/ \E i \in 1..MaxRows : Navigate(i)
    \/ \E i \in 1..MaxInserts, o \in InsertOutcomes : logEventSettled(i, o)

Next == NextIdentity \/ NextLoad \/ NextGeo \/ NextOrigin \/ NextCards

\* The whole application.
Spec == Init /\ [][Next]_vars

\* The origin, the time budget and the list they select: no card is used and
\* the identity chain is left where Mount put it.
NextOriginView == NextLoad \/ NextGeo \/ NextOrigin

SpecOrigin == Init /\ [][NextOriginView]_vars

\* The cards: votes and telemetry under the first render's identity and
\* the origin the first render asked for.
NextVoting == NextLoad \/ NextGeo \/ NextCards

SpecVote == Init /\ [][NextVoting]_vars

\* The identity chain beside the first render's other requests.
NextIdentityView ==
    \/ NextIdentity
    \/ NextLoad
    \/ NextGeo
    \/ \E i \in 1..MaxInserts, o \in InsertOutcomes : logEventSettled(i, o)

SpecIdentity == Init /\ [][NextIdentityView]_vars

(***************************************************************************)
(* Properties.                                                             *)
(***************************************************************************)
\* The walking ETA of venue v from point o, from the geo helpers alone.
EtaFrom(o, v) == etaSec(haversineKm(o, LatLng(v.lat, v.lng)), "walk")

InList(id, s) == \E i \in DOMAIN s : s[i].id = id

\* The ids of a list of venues or rows, in order.
Ids(s) == [i \in DOMAIN s |-> s[i].id]

Kuangfu == LatLng("22.9976", "120.2191")

\* C1: when upvote(v) succeeds with the backend's count n, the venue with
\* id v has reco_count n afterwards and keeps its other fields, every other
\* venue record is unchanged, and so are the order and length of the list.
C1_UpvotePatchesOnlyTarget ==
    [][\A i \in DOMAIN rpcs, n \in ReturnedCounts :
          upvoteResolved(i, Some(n), NULL) =>
             /\ Len(venues') = Len(venues)
             /\ Ids(venues') = Ids(venues)
             /\ \A k \in DOMAIN venues :
                   IF venues[k].id = rpcs[i].p_venue_id
                   THEN /\ venues'[k].reco_count = n
                        /\ venues'[k].lat = venues[k].lat
                        /\ venues'[k].lng = venues[k].lng
                   ELSE venues'[k] = venues[k]]_vars

\* C1's case: v4 of Table1 was voted to 4, its neighbours are as loaded, and
\* the vote's telemetry row is in flight.
C1_Witness ==
    /\ venues = << Table1[1], [Table1[2] EXCEPT !.reco_count = 4], Table1[3] >>
    /\ \E i \in DOMAIN inserts :
          inserts[i].event = "upvote" /\ inserts[i].venue_id = Some("v4")

\* C2: when fn_upvote returns an error, upvote alerts the error message and
\* changes nothing: the venue list, the origin, the origin key and the time
\* budget are as before and no 'upvote' telemetry row is sent.
C2_UpvoteErrorLeavesState ==
    [][\A i \in DOMAIN rpcs, e \in RpcErrors :
          upvoteResolved(i, NULL, Some(e)) =>
             /\ dialogs' = <<Alert(<<e>>)>>
             /\ venues' = venues
             /\ origin' = origin
             /\ originKey' = originKey
             /\ minutes' = minutes
             /\ inserts' = inserts]_vars

\* C2's case: the alert of a failed vote is up over a loaded list.
C2_Witness ==
    /\ dialogs = <<Alert(<<"rpc failed">>)>>
    /\ venues = Table1
    /\ rpcs = <<>>

\* C3: with an origin, a loaded venue is in the filtered list exactly when
\* its walking ETA is at most minutes * 60 seconds, or the budget is the
\* 999 sentinel; the filtered list holds loaded venues only.
C3_FilterByBudget ==
    origin # NULL =>
       /\ \A k \in DOMAIN venues :
             InList(venues[k].id, filtered) <=>
                \/ EtaFrom(origin[1], venues[k]) <= minutes * 60
                \/ minutes = 999
       /\ \A j \in DOMAIN filtered : InList(filtered[j].id, venues)

\* C3's case: from kuangfu under 15 minutes the two venues at 900 s are
\* listed and the one at 901 s is not.
C3_Witness ==
    /\ origin = Some(Kuangfu)
    /\ minutes = 15
    /\ venues = Table1
    /\ EtaFrom(Kuangfu, Table1[1]) = 901
    /\ EtaFrom(Kuangfu, Table1[2]) = 900
    /\ InList("v4", filtered) /\ InList("v3", filtered)
    /\ ~InList("v1", filtered)

\* C4: with an origin, of any two venues of the filtered list the one with
\* the smaller ETA comes first, and at equal ETAs the one with the higher
\* reco_count comes first.
C4_SortedByEtaThenCount ==
    origin # NULL =>
       \A i, j \in DOMAIN filtered :
          LET a  == filtered[i]
              b  == filtered[j]
              ea == EtaFrom(origin[1], a)
              eb == EtaFrom(origin[1], b)
          IN /\ ea < eb => i < j
             /\ (ea = eb /\ a.reco_count > b.reco_count) => i < j

\* C4's case: Table1 is loaded as v1 (901 s, 5), v4 (900 s, 0), v3 (900 s, 3)
\* and shown from kuangfu, with no budget, as v3, v4, v1.
C4_Witness ==
    /\ origin = Some(Kuangfu)
    /\ minutes = 999
    /\ Ids(venues) = <<"v1", "v4", "v3">>
    /\ Ids(filtered) = <<"v3", "v4", "v1">>

\* C5: a finite point p saved by promptSetCustom under a custom key reads
\* back as exactly p and leaves the other key's entry alone; an entry
\* changes only by a save under its own key; and selecting a custom key
\* that has a stored point sets the origin to that point with no dialog.
C5_CustomOriginRoundTrip ==
    [][/\ \A key \in CUSTOM_KEYS, la \in LatAnswers, ln \in LngAnswers :
             (/\ Number_isFinite(Number(la))
              /\ Number_isFinite(Number(ln))
              /\ promptSetCustom(key, la, ln)) =>
                /\ loadCustomPoint(key)' = Some(LatLng(Number(la), Number(ln)))
                /\ \A other \in CUSTOM_KEYS \ {key} :
                      localStorage'[StorageKey(other)]
                         = localStorage[StorageKey(other)]
       /\ \A key \in CUSTOM_KEYS :
             localStorage'[StorageKey(key)] # localStorage[StorageKey(key)] =>
                \E la \in LatAnswers, ln \in LngAnswers :
                   promptSetCustom(key, la, ln)
       /\ \A key \in CUSTOM_KEYS :
             (loadCustomPoint(key) # NULL /\ SelectOrigin(key)) =>
                /\ origin' = loadCustomPoint(key)
                /\ dialogs' = <<>>]_vars

\* C5's case: customA holds the saved point, the table has it too (so an
\* effect ran after the save), and customA was selected again without a
\* dialog: the origin is the saved point.
C5_Witness ==
    /\ originKey = "customA"
    /\ dialogs = <<>>
    /\ loadCustomPoint("customA") = Some(LatLng("22.996", "120.2195"))
    /\ QUICK_ORIGINS["customA"] = Some(LatLng("22.996", "120.2195"))
    /\ loadCustomPoint("customB") = Some(LatLng("0", "120.2195"))
    /\ origin = Some(LatLng("22.996", "120.2195"))

\* C6: with 'my' selected, an unsupported geolocation (in the effect) or a
\* failed request (denied, timed out) makes the origin none; and whenever
\* the origin is none the displayed list is the loaded list itself, in its
\* order, whatever the time budget.
C6_GeoFailureShowsAll ==
    /\ [](origin = NULL => filtered = venues)
    /\ [][/\ (GeoError /\ originKey = "my") => origin' = NULL
          /\ (SelectOrigin("my") /\ ~hasGeolocation) => origin' = NULL
          /\ ((\E liffId \in BOOLEAN : Mount(liffId)) /\ ~hasGeolocation) =>
                origin' = NULL]_vars

\* C6's case: 'my' was selected again (the table holds a point saved after
\* the first render), its request has failed, and under the 10 minute
\* budget, which from kuangfu hides Table1, all of Table1 is shown.
C6_Witness ==
    /\ originKey = "my"
    /\ hasGeolocation
    /\ geoRequests = 0
    /\ origin = NULL
    /\ QUICK_ORIGINS["customA"] = Some(LatLng("22.996", "120.2195"))
    /\ minutes = 10
    /\ venues = Table1
    /\ filtered = Table1

\* C7: the user hash is always the fingerprint, the token or the profile
\* form.  It is the token form (the first 32 characters) once init has
\* succeeded with a logged-in user and an ID token; the profile form only
\* without an ID token and after a profile with a userId; and the
\* fingerprint after every failure (no LIFF id, init rejected, not logged
\* in, profile rejected or without userId).  No identity step shows a dialog.
C7_IdentityPriority ==
    /\ [](/\ \/ userHash = DevHash
             \/ \E t \in IdTokens : Truthy(t) /\ userHash = TokenHash(t[1])
             \/ \E u \in UserIds : Truthy(u) /\ userHash = UidHash(u[1])
          /\ (liff.loggedIn /\ Truthy(liff.idToken)) =>
                /\ userHash.prefix = "liffToken-"
                /\ userHash.rest = SubSeq(liff.idToken[1], 1,
                                          Min(32, Len(liff.idToken[1])))
          /\ userHash.prefix = "liffUid-" =>
                /\ ~Truthy(liff.idToken)
                /\ liff.pc = "profileResolved"
                /\ Truthy(liff.userId)
                /\ userHash.rest = liff.userId[1]
          /\ (\/ liff.pc \in {"unmounted", "noLiffId", "init", "initRejected",
                              "login", "getProfile", "profileRejected"}
              \/ (liff.pc = "profileResolved" /\ ~Truthy(liff.userId))) =>
                userHash = DevHash)
    /\ [][NextIdentity => dialogs' = <<>>]_vars

\* C7's case: init succeeded for a logged-in user with the 40-character
\* token, and the hash is 'liffToken-' with its first 32 characters.
C7_Witness ==
    /\ liff.pc = "tokenSet"
    /\ liff.idToken = Some(LongToken)
    /\ userHash.prefix = "liffToken-"
    /\ Len(userHash.rest) = 32
    /\ loadPc = "loaded"

\* C8: an app_events insert that settles, failed or rejected included,
\* shows no dialog and changes neither the venue list, the origin nor the
\* loading flag; and the step of a successful upvote that patches the count
\* leaves the vote's 'upvote' insert in flight.
C8_TelemetryFireAndForget ==
    [][/\ \A i \in DOMAIN inserts, o \in InsertOutcomes :
             logEventSettled(i, o) =>
                /\ dialogs' = <<>>
                /\ venues' = venues
                /\ origin' = origin
                /\ loading' = loading
       /\ \A i \in DOMAIN rpcs, n \in ReturnedCounts :
             upvoteResolved(i, Some(n), NULL) =>
                /\ \E k \in DOMAIN venues' :
                      /\ venues'[k].id = rpcs[i].p_venue_id
                      /\ venues'[k].reco_count = n
                /\ Len(inserts') = Len(inserts) + 1
                /\ inserts'[Len(inserts')].event = "upvote"
                /\ inserts'[Len(inserts')].venue_id
                      = Some(rpcs[i].p_venue_id)]_vars

\* C8's case: v2 of Table2 was voted to 4 and every insert (the view's, the
\* vote's) has settled, with the list, the flag and the dialogs as the vote
\* left them.
C8_Witness ==
    /\ venues = << Table2[1], [Table2[2] EXCEPT !.reco_count = 4] >>
    /\ inserts = <<>>
    /\ rpcs = <<>>
    /\ ~loading
    /\ dialogs = <<>>

\* The origin is none or a pair of two finite numbers.
OriginFiniteOrNone ==
    \/ origin = NULL
    \/ /\ Len(origin) = 1
       /\ DOMAIN origin[1] = {"lat", "lng"}
       /\ Number_isFinite(origin[1].lat)
       /\ Number_isFinite(origin[1].lng)

\* C9: the origin is always none or a pair of a finite latitude and a
\* finite longitude, and a prompt answered with a non-finite number changes
\* neither the origin nor the stored points.
C9_OriginFiniteOrNone ==
    /\ []OriginFiniteOrNone
    /\ [][\A key \in CUSTOM_KEYS, la \in LatAnswers, ln \in LngAnswers :
             (/\ ~(Number_isFinite(Number(la)) /\ Number_isFinite(Number(ln)))
              /\ promptSetCustom(key, la, ln)) =>
                /\ origin' = origin
                /\ localStorage' = localStorage]_vars

\* C9's case: with customA selected, a prompt for customA was answered with
\* a non-number and refused; the origin is still customA's saved point.
C9_Witness ==
    /\ originKey = "customA"
    /\ dialogs = << Prompt(<<"lat">>), Prompt(<<"lng">>),
                    Alert(<<"bad format">>) >>
    /\ origin = Some(LatLng("0", "120.2195"))
    /\ loadCustomPoint("customA") = origin

\* The coordinate of a landmark or custom key: the landmark's, or the
\* custom key's stored point, or the placeholder while nothing is stored.
KeyCoordinate(key) ==
    IF key \in CUSTOM_KEYS /\ loadCustomPoint(key) # NULL
    THEN loadCustomPoint(key)
    ELSE QUICK_ORIGINS_initial[key]

\* C10: whenever a landmark or custom key is the selected key, the origin
\* is that key's coordinate, whatever geolocation callbacks arrive.
C10_OriginMatchesSelectedKey ==
    originKey # "my" => origin = KeyCoordinate(originKey)

\* C10 without the geolocation callbacks: between them, the origin does
\* match the selected key.
C10_MatchesUnlessGeoCallback ==
    [][(originKey' # "my" /\ origin' # KeyCoordinate(originKey)')
          => (GeoError \/ (\E pos \in GeoPositions : GeoSuccess(pos))
              \/ (originKey # "my" /\ origin # KeyCoordinate(originKey)))]_vars

====
